---- MODULE Spec2Model ----
(***************************************************************************)
(* A model of the two scripts of openclaw-experiential-memory:             *)
(*   src/memory-system.py        the Session State Document and the        *)
(*                               commands boot, process, save, search,     *)
(*                               status, daily;                            *)
(*   src/satisfaction-tracker.py the Tracker Document and the commands     *)
(*                               record, analyze, daily-summary,           *)
(*                               update-learning, and detect_signal.       *)
(* Scores are kept in tenths (5.0 is 50).  A Python None is the empty      *)
(* sequence and a present value x is <<x>>.  A JSON file is the empty      *)
(* sequence while it does not exist and <<document>> once written.         *)
(***************************************************************************)
EXTENDS Integers, Sequences, FiniteSets, TLC

VARIABLES
    clock,          \* datetime.utcnow(), in ticks
    stateFile,      \* STATE_FILE (memory-system.py)
    written,        \* the files the last command wrote
    evicted,        \* how many high_scores entries the last command dropped
    trackerFile,    \* TRACKER_FILE (satisfaction-tracker.py)
    summaryFiles,   \* INSIGHTS_DIR: date -> the daily summary written for it
    learningFile,   \* LEARNING_FILE
    userText,       \* the text detect_signal is handed
    procs,          \* the tracker invocations running at the same time
    lastCall,       \* the command the last step ran, with what it was given
    result          \* what that command returned

vars == <<clock, stateFile, written, evicted, trackerFile, summaryFiles,
          learningFile, userText, procs, lastCall, result>>

memVars == <<stateFile, evicted>>

callerVars == <<userText, procs>>

trackerVars == <<trackerFile, summaryFiles, learningFile, callerVars>>

(***************************************************************************)
(* Bounds of the model.                                                    *)
(***************************************************************************)
MaxTime == 1

MaxProcessed == 11

\* ticks of the clock in one calendar day
TicksPerDay == 2

\* the clock's last tick while the tracker's commands run
MaxTicks == 2

\* the incidents recorded while record, analyze, daily-summary and
\* update-learning all run
MaxIncidents == 2

\* the incidents recorded while analyze alone reads them
MaxAnalyzed == 6

\* the clock's last tick while analyze alone reads the incidents
MaxAnalyzeTicks == 1

\* the pieces a message handed to detect_signal is put together from
MaxFragments == 3

\* the tracker invocations started while two run at the same time
MaxInvocations == 3

\* the messages processed while the scores sit at the two thresholds
MaxFlagged == 3

(***************************************************************************)
(* Generic helpers.                                                        *)
(***************************************************************************)
None == <<>>

Some(x) == <<x>>

Min(a, b) == IF a <= b THEN a ELSE b

Max(a, b) == IF a >= b THEN a ELSE b

\* s[:n] of Python, n >= 0
Prefix(s, n) == SubSeq(s, 1, Min(n, Len(s)))

\* s[-n:] of Python, n > 0
Suffix(s, n) == SubSeq(s, Max(1, Len(s) - n + 1), Len(s))

(***************************************************************************)
(* memory-system.py                                                        *)
(***************************************************************************)
AUTO_SAVE_THRESHOLD == 50

HIGHLIGHT_THRESHOLD == 70

DefaultCombined == 20

HighScoresKept == 10

PreviewLen == 100

\* the messages handed to process
Messages == { <<"h", "i">> }

\* the combined scores the scoring collaborator reports, in tenths
Scores == {20, 50}

\* scores at, just below and between the two thresholds, in tenths
ThresholdScores == {30, 49, 50, 69, 70}

\* what run_script returns: success is returncode == 0; stdout is modelled
\* by what json.loads makes of it: it raises (json is FALSE) or gives the
\* object the analyze command prints, whose "combined" key holds a number
\* or is absent
ScoringOutputs(scores) ==
    { [success |-> FALSE, stderr |-> "scoring failed"] }
    \cup { [success |-> TRUE, stdout |-> [json |-> FALSE]] }
    \cup { [success |-> TRUE, stdout |-> [json |-> TRUE, combined |-> c]] :
             c \in {None} \cup {Some(s) : s \in scores} }

load_state ==
    IF stateFile # <<>>
    THEN stateFile[1]
    ELSE [session_start |-> None,
          messages_processed |-> 0,
          high_scores |-> <<>>,
          last_consolidation |-> None]

\* the file after save_state(state)
save_state(state) == <<state>>

\* what the context-sync collaborator returns to boot
SyncOutputs == { [success |-> b] : b \in BOOLEAN }

\* what the forgetting scan returns to boot: a failure, output json.loads
\* rejects, or the list of the scanned items' recommendations
ForgetOutputs ==
    { [success |-> FALSE], [success |-> TRUE, stdout |-> [json |-> FALSE]] }
    \cup { [success |-> TRUE, stdout |-> [json |-> TRUE, scan |-> s]] :
             s \in { <<>>, <<"KEEP", "FORGET">> } }

\* len([s for s in scan_data if s.get('recommendation') != 'KEEP'])
RECURSIVE CountCandidates(_)
CountCandidates(scan) ==
    IF scan = <<>> THEN 0
    ELSE (IF Head(scan) # "KEEP" THEN 1 ELSE 0) + CountCandidates(Tail(scan))

\* the result's action list as boot builds it
BootActions(sync, forget) ==
    LET a1 == << [action |-> "sync_context",
                  success |-> sync.success,
                  output |-> IF sync.success THEN "stdout" ELSE "stderr"] >>
    IN  IF forget.success /\ forget.stdout.json
        THEN Append(a1, [action |-> "forgetting_scan",
                         candidates |-> CountCandidates(forget.stdout.scan)])
        ELSE a1

\* a slip of lines 105-108: the session is reset to a fresh document
bootFresh(sync, forget) ==
    LET now == clock
        state == [session_start |-> Some(now),
                  messages_processed |-> 0,
                  high_scores |-> <<>>,
                  last_consolidation |-> None]
    IN  /\ stateFile' = save_state(state)
        /\ written' = {"state"}
        /\ evicted' = 0
        /\ lastCall' = [cmd |-> "boot", sync |-> sync, forget |-> forget]
        /\ result' = [timestamp |-> now,
                      actions |-> BootActions(sync, forget),
                      status |-> "ready"]
        /\ UNCHANGED clock

\* a different boot: a failed context sync ends it, before the scan and
\* before the session is reset
bootStopsAtFailure(sync, forget) ==
    LET now == clock
        state == [load_state EXCEPT !.session_start = Some(now),
                                    !.messages_processed = 0,
                                    !.high_scores = <<>>]
    IN  /\ lastCall' = [cmd |-> "boot", sync |-> sync, forget |-> forget]
        /\ evicted' = 0
        /\ UNCHANGED clock
        /\ IF sync.success
           THEN /\ stateFile' = save_state(state)
                /\ written' = {"state"}
                /\ result' = [timestamp |-> now,
                              actions |-> BootActions(sync, forget),
                              status |-> "ready"]
           ELSE /\ UNCHANGED stateFile
                /\ written' = {}
                /\ result' = [timestamp |-> now,
                              actions |-> BootActions(sync, [success |-> FALSE]),
                              status |-> "failed"]

\* boot(): both collaborators run, then the session is reset and saved
boot(sync, forget) ==
    LET now == clock
        state == [load_state EXCEPT !.session_start = Some(now),
                                    !.messages_processed = 0,
                                    !.high_scores = <<>>]
    IN  /\ stateFile' = save_state(state)
        /\ written' = {"state"}
        /\ evicted' = 0
        /\ lastCall' = [cmd |-> "boot", sync |-> sync, forget |-> forget]
        /\ result' = [timestamp |-> now,
                      actions |-> BootActions(sync, forget),
                      status |-> "ready"]
        /\ UNCHANGED clock

\* json.loads(stdout) with the except branch's fixed analysis
Analysis(out) ==
    IF out.stdout.json
    THEN [combined |-> out.stdout.combined]
    ELSE [combined |-> Some(DefaultCombined)]

\* analysis.get('combined', 2.0)
Combined(analysis) ==
    IF analysis.combined = None THEN DefaultCombined ELSE analysis.combined[1]

\* state['high_scores'].append({...})
Appended(high_scores, now, combined, message) ==
    Append(high_scores, [timestamp |-> now,
                         score |-> combined,
                         preview |-> Prefix(message, PreviewLen)])

\* a slip of line 155: [:10] for [-10:]
KeepFirst(high_scores) == Prefix(high_scores, HighScoresKept)

\* state['high_scores'][-10:]
KeepLast(high_scores) == Suffix(high_scores, HighScoresKept)

\* a slip of line 146: > for >=
HighScoresAfterStrict(high_scores, now, combined, message) ==
    IF combined > AUTO_SAVE_THRESHOLD
    THEN KeepLast(Appended(high_scores, now, combined, message))
    ELSE high_scores

\* the high_scores list after step 3 of process_message
HighScoresAfter(high_scores, now, combined, message) ==
    IF combined >= AUTO_SAVE_THRESHOLD
    THEN KeepLast(Appended(high_scores, now, combined, message))
    ELSE high_scores

\* how many entries line 155 cut off
Evicted(high_scores, combined) ==
    IF combined >= AUTO_SAVE_THRESHOLD
    THEN Len(high_scores) + 1 - Len(KeepLast(Append(high_scores, combined)))
    ELSE 0

\* result['flag'] after steps 3: None while the key is not set
Flag(combined) ==
    LET f1 == IF combined >= AUTO_SAVE_THRESHOLD THEN Some("SIGNIFICANT") ELSE None
    IN  IF combined >= HIGHLIGHT_THRESHOLD THEN Some("IMPORTANT") ELSE f1

\* result['actions']
Advice(combined) ==
    (IF combined >= AUTO_SAVE_THRESHOLD
     THEN << "Consider saving to memory" >> ELSE << >>)
    \o (IF combined >= HIGHLIGHT_THRESHOLD
        THEN << "High importance - strongly recommend saving" >> ELSE << >>)

Emoji(combined) ==
    IF combined >= 70 THEN "fire"
    ELSE IF combined >= 50 THEN "lightning"
    ELSE IF combined >= 30 THEN "chart"
    ELSE "sleep"

\* result['flags']
Flags(combined) ==
    IF combined >= HIGHLIGHT_THRESHOLD THEN << "IMPORTANT" >>
    ELSE IF combined >= AUTO_SAVE_THRESHOLD THEN << "SIGNIFICANT" >>
    ELSE << >>

\* a slip of lines 122-135: the counter is bumped and saved before the
\* collaborator's exit status is looked at
processCountsFirst(message, out) ==
    LET loaded == load_state
        state == [loaded EXCEPT
                    !.messages_processed = loaded.messages_processed + 1]
    IN  /\ lastCall' = [cmd |-> "process", message |-> message, out |-> out]
        /\ result' = IF out.success
                      THEN [score |-> Combined(Analysis(out))]
                      ELSE [success |-> FALSE, error |-> out.stderr]
        /\ stateFile' = save_state(state)
        /\ written' = {"state"}
        /\ evicted' = 0
        /\ UNCHANGED clock

\* a slip of lines 125-129: output json.loads rejects is answered like a
\* failed collaborator, before the state is loaded
processSkipsUnparsed(message, out) ==
    LET now == clock IN
    /\ lastCall' = [cmd |-> "process", message |-> message, out |-> out]
    /\ UNCHANGED clock
    /\ IF ~out.success \/ ~out.stdout.json
       THEN /\ result' = [success |-> FALSE,
                          error |-> IF out.success THEN "unparsed" ELSE out.stderr]
            /\ written' = {}
            /\ evicted' = 0
            /\ UNCHANGED stateFile
       ELSE LET analysis == Analysis(out)
                combined == Combined(analysis)
                loaded == load_state
                state == [loaded EXCEPT
                            !.messages_processed = loaded.messages_processed + 1,
                            !.high_scores =
                                HighScoresAfter(loaded.high_scores, now,
                                                combined, message)]
            IN  /\ stateFile' = save_state(state)
                /\ written' = {"state"}
                /\ evicted' = Evicted(loaded.high_scores, combined)
                /\ result' = [timestamp |-> now,
                              message_preview |-> Prefix(message, PreviewLen),
                              score |-> combined,
                              analysis |-> analysis,
                              actions |-> Advice(combined),
                              flag |-> Flag(combined),
                              emoji |-> Emoji(combined),
                              flags |-> Flags(combined),
                              saved |-> FALSE]

\* process_message(message) when the scoring collaborator returned out
process_message(message, out) ==
    LET now == clock IN
    /\ lastCall' = [cmd |-> "process", message |-> message, out |-> out]
    /\ UNCHANGED clock
    /\ IF ~out.success
       THEN /\ result' = [success |-> FALSE, error |-> out.stderr]
            /\ written' = {}
            /\ evicted' = 0
            /\ UNCHANGED stateFile
       ELSE LET analysis == Analysis(out)
                combined == Combined(analysis)
                loaded == load_state
                state == [loaded EXCEPT
                            !.messages_processed = loaded.messages_processed + 1,
                            !.high_scores =
                                HighScoresAfter(loaded.high_scores, now,
                                                combined, message)]
            IN  /\ stateFile' = save_state(state)
                /\ written' = {"state"}
                /\ evicted' = Evicted(loaded.high_scores, combined)
                /\ result' = [timestamp |-> now,
                              message_preview |-> Prefix(message, PreviewLen),
                              score |-> combined,
                              analysis |-> analysis,
                              actions |-> Advice(combined),
                              flag |-> Flag(combined),
                              emoji |-> Emoji(combined),
                              flags |-> Flags(combined),
                              saved |-> FALSE]

\* the category and title save is called with, and the write collaborator's exit
SaveInputs == { [title |-> None, category |-> c] : c \in {None, Some("notes")} }

\* save_memory(content, title, category): the state file is not touched
save_memory(in, ok) ==
    /\ lastCall' = [cmd |-> "save", in |-> in, ok |-> ok]
    /\ result' = [success |-> ok,
                  file |-> IF in.category # None
                           THEN << "memory", in.category[1],
                                   IF in.title # None THEN in.title[1] ELSE "entry" >>
                           ELSE << "memory", clock >>,
                  output |-> IF ok THEN "stdout" ELSE "stderr"]
    /\ written' = {}
    /\ evicted' = 0
    /\ UNCHANGED <<clock, stateFile>>

\* search_memory(query)
search_memory(ok) ==
    /\ lastCall' = [cmd |-> "search", ok |-> ok]
    /\ result' = [success |-> ok, results |-> IF ok THEN "stdout" ELSE "stderr"]
    /\ written' = {}
    /\ evicted' = 0
    /\ UNCHANGED <<clock, stateFile>>

\* run_daily(): both collaborators run, then last_consolidation is set
run_daily(consolOk) ==
    LET state == [load_state EXCEPT !.last_consolidation = Some(clock)]
    IN  /\ stateFile' = save_state(state)
        /\ written' = {"state"}
        /\ evicted' = 0
        /\ lastCall' = [cmd |-> "daily", ok |-> consolOk]
        /\ result' = [actions |-> << [action |-> "consolidation",
                                      success |-> consolOk],
                                     [action |-> "forgetting_scan"] >>]
        /\ UNCHANGED clock

\* show_status(): reads the state, writes nothing
show_status ==
    LET state == load_state
    IN  /\ lastCall' = [cmd |-> "status"]
        /\ result' = [session_start |-> state.session_start,
                      messages_processed |-> state.messages_processed,
                      high_scores_this_session |-> Len(state.high_scores),
                      last_consolidation |-> state.last_consolidation,
                      thresholds |-> [auto_save |-> AUTO_SAVE_THRESHOLD,
                                      highlight |-> HIGHLIGHT_THRESHOLD]]
        /\ written' = {}
        /\ evicted' = 0
        /\ UNCHANGED <<clock, stateFile>>

(***************************************************************************)
(* satisfaction-tracker.py                                                 *)
(***************************************************************************)
MessageLen == 200

RecentKept == 5

SummaryDays == 7

LearningDays == 30

LearningIncidents == 50

TopContexts == 10

\* what record is called with
Signals == {"negative", "positive", "interested"}

Contexts == {"code-review", "deploy"}

UserMessage == << "o", "k" >>

load_tracker ==
    IF trackerFile # <<>>
    THEN trackerFile[1]
    ELSE [incidents |-> <<>>, patterns |-> <<>>, last_summary |-> None]

\* the file after save_tracker(data)
save_tracker(data) == <<data>>

\* datetime.fromisoformat(...).date(): the calendar day of a timestamp
DateOf(ts) == ts \div TicksPerDay

\* timestamp.strftime("%Y%m%d_%H%M%S")
IncidentId(ts) == << ts \div TicksPerDay, ts % TicksPerDay >>

\* the incident record_incident builds
Incident(now, signal, context, user_message, my_response, analysis) ==
    [id |-> IncidentId(now),
     timestamp |-> now,
     signal |-> signal,
     context |-> context,
     user_message |-> Prefix(user_message, MessageLen),
     my_response |-> Prefix(my_response, MessageLen),
     analysis |-> IF analysis = None THEN "Pending analysis" ELSE analysis[1]]

\* a different record_incident: the incident is appended to the document as
\* the file holds it at the save, not to the copy loaded before
WithIncidentReloaded(tracker, incident) ==
    [load_tracker EXCEPT !.incidents = Append(load_tracker.incidents, incident)]

\* tracker["incidents"].append(incident)
WithIncident(tracker, incident) ==
    [tracker EXCEPT !.incidents = Append(tracker.incidents, incident)]

\* record_incident(signal, context, user_message, my_response, analysis)
record_incident(signal, context, user_message, my_response, analysis) ==
    LET tracker == load_tracker
        incident == Incident(clock, signal, context, user_message,
                             my_response, analysis)
    IN  /\ trackerFile' = save_tracker(WithIncident(tracker, incident))
        /\ written' = {"tracker"}
        /\ lastCall' = [cmd |-> "record", signal |-> signal, context |-> context]
        /\ result' = [id |-> incident.id]
        /\ UNCHANGED <<clock, summaryFiles, learningFile, callerVars>>

\* datetime.utcnow() - timedelta(days=since_days)
Cutoff(now, since_days) == now - since_days * TicksPerDay

\* inc's timestamp >= cutoff
InWindow(inc, cutoff) == inc.timestamp >= cutoff

\* the incidents analyze_patterns selects
Recent(incidents, now, since_days) ==
    LET Keep(inc) == InWindow(inc, Cutoff(now, since_days))
    IN  SelectSeq(incidents, Keep)

\* the loop of lines 117-120: signal -> count
RECURSIVE SignalCounts(_)
SignalCounts(recent) ==
    IF recent = <<>> THEN [s \in {} |-> 0]
    ELSE LET counts == SignalCounts(SubSeq(recent, 1, Len(recent) - 1))
             signal == recent[Len(recent)].signal
         IN  IF signal \in DOMAIN counts
             THEN [counts EXCEPT ![signal] = @ + 1]
             ELSE [s \in DOMAIN counts \cup {signal} |->
                     IF s = signal THEN 1 ELSE counts[s]]

\* signal_counts.get(signal, 0)
GetCount(counts, signal) == IF signal \in DOMAIN counts THEN counts[signal] ELSE 0

\* round(n / total, 2), in hundredths: the nearest hundredth, an exact tie
\* going to the even one (a tie needs total to be a multiple of 8)
Round2(n, total) ==
    LET q == (100 * n) \div total
        r == (100 * n) % total
    IN  IF 2 * r > total THEN q + 1
        ELSE IF 2 * r < total THEN q
        ELSE IF q % 2 = 0 THEN q ELSE q + 1

\* a slip of line 140: recent[:5]
FirstRecent(recent) == Prefix(recent, RecentKept)

\* recent[-5:]
LastRecent(recent) == Suffix(recent, RecentKept)

\* a slip of lines 113-114: no early return, the statistics of nothing
PatternsZeroFilled(incidents, now, since_days) ==
    LET recent == Recent(incidents, now, since_days)
        signal_counts == SignalCounts(recent)
        total == Len(recent)
        positive == GetCount(signal_counts, "positive")
        negative == GetCount(signal_counts, "negative")
    IN  [period |-> since_days,
         total_incidents |-> total,
         signal_breakdown |-> signal_counts,
         satisfaction_ratio |-> IF total > 0 THEN Round2(positive, total) ELSE 0,
         concern_ratio |-> IF total > 0 THEN Round2(negative, total) ELSE 0,
         common_contexts |-> { recent[i].context : i \in 1..Len(recent) },
         recent_incidents |-> LastRecent(recent)]

\* analyze_patterns(since_days) on the loaded tracker at time now
Patterns(incidents, now, since_days) ==
    LET recent == Recent(incidents, now, since_days)
        signal_counts == SignalCounts(recent)
        total == Len(recent)
        positive == GetCount(signal_counts, "positive")
        negative == GetCount(signal_counts, "negative")
    IN  IF recent = <<>>
        THEN [message |-> "No incidents in the specified period"]
        ELSE [period |-> since_days,
              total_incidents |-> total,
              signal_breakdown |-> signal_counts,
              satisfaction_ratio |-> IF total > 0 THEN Round2(positive, total) ELSE 0,
              concern_ratio |-> IF total > 0 THEN Round2(negative, total) ELSE 0,
              common_contexts |-> { recent[i].context : i \in 1..Len(recent) },
              recent_incidents |-> LastRecent(recent)]

\* the analyze command
analyze_patterns(since_days) ==
    /\ result' = Patterns(load_tracker.incidents, clock, since_days)
    /\ written' = {}
    /\ lastCall' = [cmd |-> "analyze", since_days |-> since_days]
    /\ UNCHANGED <<clock, trackerFile, summaryFiles, learningFile, callerVars>>

\* patterns.get(key, 0)
GetRatio(patterns, key) == IF key \in DOMAIN patterns THEN patterns[key] ELSE 0

\* a slip of line 152: <= for ==
UpToTodayIncidents(incidents, today) ==
    LET Keep(inc) == DateOf(inc.timestamp) <= today
    IN  SelectSeq(incidents, Keep)

\* the incidents of the calendar day today
TodayIncidents(incidents, today) ==
    LET Keep(inc) == DateOf(inc.timestamp) = today
    IN  SelectSeq(incidents, Keep)

BySignal(incidents, signal) ==
    LET Keep(inc) == inc.signal = signal
    IN  SelectSeq(incidents, Keep)

\* inc['signal'].upper()
Upper(signal) ==
    CASE signal = "negative" -> "NEGATIVE"
      [] signal = "positive" -> "POSITIVE"
      [] signal = "interested" -> "INTERESTED"
      [] OTHER -> signal

\* the text of the daily summary, by its parts
SummaryText(today, today_incidents, patterns) ==
    [date |-> today,
     today_count |-> Len(today_incidents),
     satisfaction |-> GetRatio(patterns, "satisfaction_ratio"),
     concern |-> GetRatio(patterns, "concern_ratio"),
     incidents |-> [i \in 1..Len(today_incidents) |->
                      [timestamp |-> today_incidents[i].timestamp,
                       signal |-> Upper(today_incidents[i].signal),
                       context |-> today_incidents[i].context,
                       user |-> Prefix(today_incidents[i].user_message, 100),
                       analysis |-> today_incidents[i].analysis]],
     improve |-> LET neg == BySignal(today_incidents, "negative")
                 IN  [i \in 1..Len(neg) |-> << neg[i].context, neg[i].analysis >>],
     worked |-> LET pos == BySignal(today_incidents, "positive")
                IN  [i \in 1..Len(pos) |-> pos[i].context]]

\* a slip of lines 210-211: the filtered list is saved for the loaded one
SummarisedTodayOnly(tracker, today) ==
    [tracker EXCEPT !.incidents = TodayIncidents(tracker.incidents, today),
                    !.last_summary = Some(today)]

\* the tracker generate_daily_summary saves
Summarised(tracker, today) == [tracker EXCEPT !.last_summary = Some(today)]

\* files with the file at key written to text
WriteFile(files, key, text) ==
    [k \in DOMAIN files \cup {key} |-> IF k = key THEN text ELSE files[k]]

\* generate_daily_summary()
generate_daily_summary ==
    LET tracker == load_tracker
        today == DateOf(clock)
        today_incidents == TodayIncidents(tracker.incidents, today)
    IN  /\ lastCall' = [cmd |-> "daily-summary"]
        /\ UNCHANGED <<clock, learningFile, callerVars>>
        /\ IF today_incidents = <<>>
           THEN /\ result' = [text |-> "No satisfaction incidents recorded today."]
                /\ written' = {}
                /\ UNCHANGED <<trackerFile, summaryFiles>>
           ELSE LET patterns == Patterns(load_tracker.incidents, clock, SummaryDays)
                IN  /\ summaryFiles' =
                          WriteFile(summaryFiles, today,
                                    SummaryText(today, today_incidents, patterns))
                    /\ trackerFile' = save_tracker(Summarised(tracker, today))
                    /\ written' = {"summary", "tracker"}
                    /\ result' = [file |-> today]

\* the loop of lines 254-257: the contexts and their counts, in the order
\* the dict first saw them
RECURSIVE ContextCounts(_)
ContextCounts(incs) ==
    IF incs = <<>> THEN <<>>
    ELSE LET contexts == ContextCounts(SubSeq(incs, 1, Len(incs) - 1))
             ctx == incs[Len(incs)].context
         IN  IF \E i \in 1..Len(contexts) : contexts[i][1] = ctx
             THEN [i \in 1..Len(contexts) |->
                     IF contexts[i][1] = ctx
                     THEN << ctx, contexts[i][2] + 1 >>
                     ELSE contexts[i]]
             ELSE Append(contexts, << ctx, 1 >>)

\* sorted(items, key=lambda x: x[1], reverse=True): stable, equal counts keep
\* their order
RECURSIVE SortedByCount(_)
SortedByCount(items) ==
    IF items = <<>> THEN <<>>
    ELSE LET top == CHOOSE i \in 1..Len(items) :
                      /\ \A j \in 1..Len(items) : items[j][2] <= items[i][2]
                      /\ \A j \in 1..(i - 1) : items[j][2] < items[i][2]
             rest == [j \in 1..(Len(items) - 1) |->
                        IF j < top THEN items[j] ELSE items[j + 1]]
         IN  << items[top] >> \o SortedByCount(rest)

\* the document update_learning_doc writes, by its parts
LearningDoc(incidents, now) ==
    LET patterns == Patterns(incidents, now, LearningDays)
        last == Suffix(incidents, LearningIncidents)
        negative_incidents == BySignal(last, "negative")
        positive_incidents == BySignal(last, "positive")
        negative_contexts == ContextCounts(negative_incidents)
        positive_contexts == ContextCounts(positive_incidents)
        \* the one variable "contexts" as line 298 finds it: line 276 has
        \* rebound it when there are positive incidents
        contexts == IF positive_incidents # <<>>
                    THEN positive_contexts ELSE negative_contexts
    IN  [updated |-> now,
         total |-> GetRatio(patterns, "total_incidents"),
         satisfaction |-> GetRatio(patterns, "satisfaction_ratio"),
         concern |-> GetRatio(patterns, "concern_ratio"),
         dissatisfaction |-> Prefix(SortedByCount(negative_contexts), TopContexts),
         works_well |-> Prefix(SortedByCount(positive_contexts), TopContexts),
         high_concern |-> GetRatio(patterns, "concern_ratio") > 30,
         primary_concern |->
            IF negative_incidents # <<>>
            THEN Some(IF contexts # <<>>
                      THEN SortedByCount(contexts)[1][1] ELSE "Unknown")
            ELSE None,
         keep_doing |->
            IF positive_incidents # <<>>
            THEN Some(SortedByCount(
                        [i \in 1..Len(positive_incidents) |->
                           << positive_incidents[i].context, 1 >>])[1][1])
            ELSE None]

\* update_learning_doc()
update_learning_doc ==
    /\ learningFile' = << LearningDoc(load_tracker.incidents, clock) >>
    /\ written' = {"learning"}
    /\ lastCall' = [cmd |-> "update-learning"]
    /\ result' = [file |-> "LEARNING.md"]
    /\ UNCHANGED <<clock, trackerFile, summaryFiles, callerVars>>

(***************************************************************************)
(* detect_signal.  A text is the sequence of its characters.               *)
(***************************************************************************)
\* the phrases of lines 42-47
negative_patterns ==
    << << "n", "o", "t", " ", "s", "a", "t", "i", "s", "f", "i", "e",
          "d" >>,
       << "u", "n", "s", "a", "t", "i", "s", "f", "y", "i", "n", "g" >>,
       << "d", "i", "s", "a", "p", "p", "o", "i", "n", "t", "e", "d" >>,
       << "f", "r", "u", "s", "t", "r", "a", "t", "e", "d" >>,
       << "t", "h", "a", "t", "'", "s", " ", "n", "o", "t", " ", "w",
          "h", "a", "t", " ", "i" >>,
       << "y", "o", "u", " ", "d", "o", "n", "'", "t", " ", "u", "n",
          "d", "e", "r", "s", "t", "a", "n", "d" >>,
       << "n", "o", " ", "t", "h", "a", "t", "'", "s", " ", "w", "r",
          "o", "n", "g" >>,
       << "i", "'", "m", " ", "w", "o", "r", "r", "i", "e", "d", " ",
          "a", "b", "o", "u", "t", " ", "y", "o", "u", "r", " ",
          "a", "b", "i", "l", "i", "t", "y" >>,
       << "c", "o", "n", "c", "e", "r", "n", "i", "n", "g" >>,
       << "t", "h", "i", "s", " ", "i", "s", " ", "a", " ", "p", "r",
          "o", "b", "l", "e", "m" >>,
       << "y", "o", "u", " ", "m", "i", "s", "s", "e", "d" >>,
       << "y", "o", "u", " ", "f", "o", "r", "g", "o", "t" >>,
       << "y", "o", "u", " ", "d", "i", "d", "n", "'", "t" >>,
       << "w", "h", "y", " ", "d", "i", "d", "n", "'", "t", " ", "y",
          "o", "u" >> >>

\* the phrases of lines 50-54
positive_patterns ==
    << << "p", "e", "r", "f", "e", "c", "t" >>,
       << "e", "x", "a", "c", "t", "l", "y" >>,
       << "g", "r", "e", "a", "t" >>,
       << "e", "x", "c", "e", "l", "l", "e", "n", "t" >>,
       << "l", "o", "v", "e", " ", "i", "t" >>,
       << "t", "h", "a", "t", "'", "s", " ", "w", "h", "a", "t", " ",
          "i", " ", "w", "a", "n", "t", "e", "d" >>,
       << "s", "u", "p", "e", "r", " ", "i", "n", "t", "e", "r", "e",
          "s", "t", "e", "d" >>,
       << "t", "h", "i", "s", " ", "i", "s", " ", "g", "o", "o", "d" >>,
       << "n", "i", "c", "e" >>,
       << "w", "e", "l", "l", " ", "d", "o", "n", "e" >>,
       << "i", "m", "p", "r", "e", "s", "s", "i", "v", "e" >>,
       << "s", "m", "a", "r", "t" >> >>

\* the phrases of lines 57-60
interest_patterns ==
    << << "i", "n", "t", "e", "r", "e", "s", "t", "i", "n", "g" >>,
       << "t", "e", "l", "l", " ", "m", "e", " ", "m", "o", "r", "e" >>,
       << "i", " ", "w", "a", "n", "t", " ", "t", "o", " ", "k", "n",
          "o", "w" >>,
       << "c", "u", "r", "i", "o", "u", "s", " ", "a", "b", "o", "u",
          "t" >>,
       << "w", "h", "a", "t", " ", "a", "b", "o", "u", "t" >>,
       << "c", "a", "n", " ", "y", "o", "u", " ", "e", "x", "p", "l",
          "a", "i", "n" >> >>

\* str.lower() on one character
LowerChar(c) ==
    CASE c = "A" -> "a"
      [] c = "B" -> "b"
      [] c = "C" -> "c"
      [] c = "D" -> "d"
      [] c = "E" -> "e"
      [] c = "F" -> "f"
      [] c = "G" -> "g"
      [] c = "H" -> "h"
      [] c = "I" -> "i"
      [] c = "J" -> "j"
      [] c = "K" -> "k"
      [] c = "L" -> "l"
      [] c = "M" -> "m"
      [] c = "N" -> "n"
      [] c = "O" -> "o"
      [] c = "P" -> "p"
      [] c = "Q" -> "q"
      [] c = "R" -> "r"
      [] c = "S" -> "s"
      [] c = "T" -> "t"
      [] c = "U" -> "u"
      [] c = "V" -> "v"
      [] c = "W" -> "w"
      [] c = "X" -> "x"
      [] c = "Y" -> "y"
      [] c = "Z" -> "z"
      [] OTHER -> c

\* message.lower()
Lower(text) == [i \in 1..Len(text) |-> LowerChar(text[i])]

\* pattern in text, looked for from position i on
RECURSIVE FoundFrom(_, _, _)
FoundFrom(pattern, text, i) ==
    IF i + Len(pattern) - 1 > Len(text) THEN FALSE
    ELSE IF SubSeq(text, i, i + Len(pattern) - 1) = pattern THEN TRUE
    ELSE FoundFrom(pattern, text, i + 1)

\* pattern in text
In(pattern, text) == FoundFrom(pattern, text, 1)

\* the for loop over one list: whether it reaches a return
RECURSIVE AnyIn(_, _)
AnyIn(patterns, text) ==
    IF patterns = <<>> THEN FALSE
    ELSE IF In(Head(patterns), text) THEN TRUE
    ELSE AnyIn(Tail(patterns), text)

\* a slip of lines 62-68: the positive list is tried first
detect_signal_positive_first(text) ==
    LET message_lower == Lower(text)
    IN  IF AnyIn(positive_patterns, message_lower) THEN Some("positive")
        ELSE IF AnyIn(negative_patterns, message_lower) THEN Some("negative")
        ELSE IF AnyIn(interest_patterns, message_lower) THEN Some("interested")
        ELSE None

\* detect_signal(message)
detect_signal(text) ==
    LET message_lower == Lower(text)
    IN  IF AnyIn(negative_patterns, message_lower) THEN Some("negative")
        ELSE IF AnyIn(positive_patterns, message_lower) THEN Some("positive")
        ELSE IF AnyIn(interest_patterns, message_lower) THEN Some("interested")
        ELSE None

\* the pieces messages are put together from
Fragments ==
    { << "Y", "o", "u", " ", "m", "i", "s", "s", "e", "d" >>,
      << "n", "o", "t", " " >>,
      << "s", "a", "t", "i", "s", "f", "i", "e", "d" >>,
      << "G", "R", "E", "A", "T" >>,
      << "n", "i", "c", "e" >>,
      << "i", "n", "t", "e", "r", "e", "s", "t", "i", "n", "g" >>,
      << "T", "e", "l", "l", " ", "m", "e", " ", "m", "o", "r", "e" >>,
      << " " >> }

\* the texts of at most n pieces
RECURSIVE Texts(_)
Texts(n) ==
    IF n = 0 THEN { <<>> }
    ELSE LET shorter == Texts(n - 1)
         IN  shorter \cup { t \o f : t \in shorter, f \in Fragments }

(***************************************************************************)
(* Two invocations of the tracker at the same time.  Each is a process of  *)
(* its own: it loads the document, works on its copy and saves the copy.   *)
(***************************************************************************)
Procs == {"p1", "p2"}

\* what record is called with while two invocations run
RaceInputs == { << "negative", "deploy" >>, << "positive", "code-review" >> }

\* an invocation that is not running; returned is what its runs returned
Idle(returned) == [pc |-> "idle", returned |-> returned]

\* the invocations started so far
Started ==
    LET RECURSIVE Sum(_)
        Sum(S) == IF S = {} THEN 0
                  ELSE LET p == CHOOSE q \in S : TRUE
                       IN  Len(procs[p].returned)
                           + (IF procs[p].pc = "idle" THEN 0 ELSE 1)
                           + Sum(S \ {p})
    IN  Sum(Procs)

\* record_incident, lines 84-95: load the tracker, build the incident
RecordLoad(p, signal, context) ==
    /\ procs[p].pc = "idle"
    /\ procs' = [procs EXCEPT ![p] =
                    [pc |-> "loaded",
                     cmd |-> "record",
                     tracker |-> load_tracker,
                     incident |-> Incident(clock, signal, context, UserMessage,
                                           UserMessage, None),
                     returned |-> procs[p].returned]]
    /\ lastCall' = [cmd |-> "record", proc |-> p, step |-> "load"]
    /\ written' = {}
    /\ UNCHANGED <<clock, trackerFile, summaryFiles, learningFile, userText,
                   result>>

\* record_incident, lines 97-100: append to the copy, save it, return the id
RecordSave(p) ==
    /\ procs[p].pc = "loaded"
    /\ procs[p].cmd = "record"
    /\ trackerFile' = save_tracker(WithIncident(procs[p].tracker,
                                                procs[p].incident))
    /\ procs' = [procs EXCEPT ![p] =
                    Idle(Append(procs[p].returned,
                                [incident |-> procs[p].incident]))]
    /\ lastCall' = [cmd |-> "record", proc |-> p, step |-> "save",
                    found |-> Len(load_tracker.incidents)]
    /\ written' = {"tracker"}
    /\ UNCHANGED <<clock, summaryFiles, learningFile, userText, result>>

\* generate_daily_summary, lines 145-156: load, filter, return if none today
SummaryLoad(p) ==
    LET tracker == load_tracker
        today == DateOf(clock)
        today_incidents == TodayIncidents(tracker.incidents, today)
    IN  /\ procs[p].pc = "idle"
        /\ procs' = [procs EXCEPT ![p] =
                        IF today_incidents = <<>>
                        THEN Idle(Append(procs[p].returned,
                                         [text |-> "No satisfaction incidents recorded today."]))
                        ELSE [pc |-> "loaded",
                              cmd |-> "daily-summary",
                              tracker |-> tracker,
                              today |-> today,
                              returned |-> procs[p].returned]]
        /\ lastCall' = [cmd |-> "daily-summary", proc |-> p, step |-> "load"]
        /\ written' = {}
        /\ UNCHANGED <<clock, trackerFile, summaryFiles, learningFile, userText,
                       result>>

\* generate_daily_summary, lines 159-207: analyze_patterns loads the tracker
\* again, the summary is built from the first copy and written
SummaryWrite(p) ==
    LET today == procs[p].today
        today_incidents == TodayIncidents(procs[p].tracker.incidents, today)
        patterns == Patterns(load_tracker.incidents, clock, SummaryDays)
    IN  /\ procs[p].pc = "loaded"
        /\ procs[p].cmd = "daily-summary"
        /\ summaryFiles' = WriteFile(summaryFiles, today,
                                     SummaryText(today, today_incidents, patterns))
        /\ procs' = [procs EXCEPT ![p].pc = "written"]
        /\ lastCall' = [cmd |-> "daily-summary", proc |-> p, step |-> "write"]
        /\ written' = {"summary"}
        /\ UNCHANGED <<clock, trackerFile, learningFile, userText, result>>

\* generate_daily_summary, lines 210-213: set last_summary in the copy, save it
SummarySave(p) ==
    /\ procs[p].pc = "written"
    /\ trackerFile' = save_tracker(Summarised(procs[p].tracker, procs[p].today))
    /\ procs' = [procs EXCEPT ![p] =
                    Idle(Append(procs[p].returned, [file |-> procs[p].today]))]
    /\ lastCall' = [cmd |-> "daily-summary", proc |-> p, step |-> "save",
                    found |-> Len(load_tracker.incidents)]
    /\ written' = {"tracker"}
    /\ UNCHANGED <<clock, summaryFiles, learningFile, userText, result>>

\* time passes between two commands
Tick ==
    /\ clock < MaxTime
    /\ clock' = clock + 1
    /\ lastCall' = [cmd |-> "tick"]
    /\ result' = [none |-> TRUE]
    /\ written' = {}
    /\ evicted' = 0
    /\ UNCHANGED <<stateFile, trackerVars>>

\* time passes between two tracker commands
TrackerTick ==
    /\ clock < MaxTicks
    /\ clock' = clock + 1
    /\ lastCall' = [cmd |-> "tick"]
    /\ result' = [none |-> TRUE]
    /\ written' = {}
    /\ UNCHANGED <<trackerVars, memVars>>

Init ==
    /\ clock = 0
    /\ stateFile = <<>>
    /\ trackerFile = <<>>
    /\ summaryFiles = <<>>
    /\ learningFile = <<>>
    /\ userText = <<>>
    /\ procs = [p \in Procs |-> Idle(<<>>)]
    /\ written = {}
    /\ evicted = 0
    /\ lastCall = [cmd |-> "none"]
    /\ result = [none |-> TRUE]

Boot ==
    /\ \E sync \in SyncOutputs, forget \in ForgetOutputs : boot(sync, forget)
    /\ UNCHANGED trackerVars

Process ==
    /\ load_state.messages_processed < MaxProcessed
    /\ \E message \in Messages, out \in ScoringOutputs(Scores) :
           process_message(message, out)
    /\ UNCHANGED trackerVars

Save ==
    /\ \E in \in SaveInputs, ok \in BOOLEAN : save_memory(in, ok)
    /\ UNCHANGED trackerVars

Search ==
    /\ \E ok \in BOOLEAN : search_memory(ok)
    /\ UNCHANGED trackerVars

Daily ==
    /\ \E ok \in BOOLEAN : run_daily(ok)
    /\ UNCHANGED trackerVars

Status == show_status /\ UNCHANGED trackerVars

\* the memory-system commands, run one at a time
Next == Tick \/ Boot \/ Process \/ Save \/ Search \/ Daily \/ Status

Spec == Init /\ [][Next]_vars

\* process with the scoring collaborator reporting scores around the thresholds
FlagProcess ==
    /\ load_state.messages_processed < MaxFlagged
    /\ \E message \in Messages, out \in ScoringOutputs(ThresholdScores) :
           process_message(message, out)
    /\ UNCHANGED trackerVars

\* boot and process, run one at a time
FlagNext == Tick \/ Boot \/ FlagProcess

FlagSpec == Init /\ [][FlagNext]_vars

Record ==
    /\ Len(load_tracker.incidents) < MaxIncidents
    /\ \E signal \in Signals, context \in Contexts :
           record_incident(signal, context, UserMessage, UserMessage, None)
    /\ UNCHANGED memVars

Analyze == analyze_patterns(1) /\ UNCHANGED memVars

DailySummary == generate_daily_summary /\ UNCHANGED memVars

UpdateLearning == update_learning_doc /\ UNCHANGED memVars

\* what record is called with while analyze alone reads the incidents
AnalyzeInputs ==
    { << "negative", "deploy" >>, << "positive", "code-review" >>,
      << "interested", "deploy" >> }

\* the days analyze is called with
AnalyzeDays == {0, 1}

AnalyzeTick ==
    /\ clock < MaxAnalyzeTicks
    /\ clock' = clock + 1
    /\ lastCall' = [cmd |-> "tick"]
    /\ result' = [none |-> TRUE]
    /\ written' = {}
    /\ UNCHANGED <<trackerVars, memVars>>

AnalyzeRecord ==
    /\ Len(load_tracker.incidents) < MaxAnalyzed
    /\ \E in \in AnalyzeInputs :
           record_incident(in[1], in[2], UserMessage, UserMessage, None)
    /\ UNCHANGED memVars

AnalyzeDaysAgo ==
    /\ \E since_days \in AnalyzeDays : analyze_patterns(since_days)
    /\ UNCHANGED memVars

\* record and analyze, run one at a time
AnalyzeNext == AnalyzeTick \/ AnalyzeRecord \/ AnalyzeDaysAgo

AnalyzeSpec == Init /\ [][AnalyzeNext]_vars

\* a caller holds any of the bounded texts
DetectInit ==
    /\ clock = 0
    /\ stateFile = <<>>
    /\ trackerFile = <<>>
    /\ summaryFiles = <<>>
    /\ learningFile = <<>>
    /\ userText \in Texts(MaxFragments)
    /\ procs = [p \in Procs |-> Idle(<<>>)]
    /\ written = {}
    /\ evicted = 0
    /\ lastCall = [cmd |-> "none"]
    /\ result = [none |-> TRUE]

\* the caller applies detect_signal to its text
Detect ==
    /\ lastCall' = [cmd |-> "detect"]
    /\ result' = [signal |-> detect_signal(userText)]
    /\ written' = {}
    /\ UNCHANGED <<clock, memVars, trackerFile, summaryFiles, learningFile, callerVars>>

DetectNext == Detect

DetectSpec == DetectInit /\ [][DetectNext]_vars

RaceRecordLoad ==
    /\ Started < MaxInvocations
    /\ \E p \in Procs, in \in RaceInputs : RecordLoad(p, in[1], in[2])
    /\ UNCHANGED memVars

RaceRecordSave == (\E p \in Procs : RecordSave(p)) /\ UNCHANGED memVars

RaceSummaryLoad ==
    /\ Started < MaxInvocations
    /\ \E p \in Procs : SummaryLoad(p)
    /\ UNCHANGED memVars

RaceSummaryWrite == (\E p \in Procs : SummaryWrite(p)) /\ UNCHANGED memVars

RaceSummarySave == (\E p \in Procs : SummarySave(p)) /\ UNCHANGED memVars

\* two tracker invocations, their loads and saves in any order
RaceNext ==
    \/ RaceRecordLoad
    \/ RaceRecordSave
    \/ RaceSummaryLoad
    \/ RaceSummaryWrite
    \/ RaceSummarySave

RaceSpec == Init /\ [][RaceNext]_vars

\* the tracker's commands, run one at a time
TrackerNext == TrackerTick \/ Record \/ Analyze \/ DailySummary \/ UpdateLearning

TrackerSpec == Init /\ [][TrackerNext]_vars

(***************************************************************************)
(* The Session State Document as the commands see it.                      *)
(***************************************************************************)
high_scores == load_state.high_scores

messages_processed == load_state.messages_processed

session_start == load_state.session_start

last_consolidation == load_state.last_consolidation

\* the last step was a process call whose score qualified for high_scores
Qualified ==
    /\ lastCall.cmd = "process"
    /\ lastCall.out.success
    /\ result.score >= AUTO_SAVE_THRESHOLD

\* the entry a qualifying process call appends
NewEntry ==
    [timestamp |-> result.timestamp,
     score |-> result.score,
     preview |-> result.message_preview]

\* C1: after any sequence of boot, process and daily run one at a time,
\* high_scores holds at most 10 entries; a qualifying process call that finds
\* 10 entries removes exactly the oldest, keeps the other 9 in their order and
\* puts the new entry last.
C1_HighScoresFifo ==
    [][ /\ Len(high_scores') <= 10
        /\ (Qualified' /\ Len(high_scores) = 10) =>
              /\ Len(high_scores') = 10
              /\ \A i \in 1..9 : high_scores'[i] = high_scores[i + 1]
              /\ high_scores'[10] = NewEntry'
      ]_vars

\* a qualifying process call has just evicted an entry from a full list
C1_Witness ==
    /\ Qualified
    /\ evicted = 1
    /\ Len(high_scores) = 10
    /\ high_scores[1].timestamp # high_scores[10].timestamp

\* C3: when the scoring collaborator fails, process returns a failure result
\* carrying the error, and the Session State Document is left as it was:
\* no write, messages_processed and high_scores unchanged.
C3_FailureLeavesState ==
    [][ (lastCall'.cmd = "process" /\ ~lastCall'.out.success) =>
            /\ result' = [success |-> FALSE, error |-> lastCall'.out.stderr]
            /\ "state" \notin written'
            /\ stateFile' = stateFile
            /\ messages_processed' = messages_processed
            /\ high_scores' = high_scores
      ]_vars

\* a failed process call after messages were counted and a score was kept
C3_Witness ==
    /\ lastCall.cmd = "process"
    /\ ~lastCall.out.success
    /\ "error" \in DOMAIN result
    /\ messages_processed > 1
    /\ high_scores # <<>>

\* C10: last_consolidation is changed only by daily, and daily changes no
\* other field of the Session State Document.
C10_OnlyDailyConsolidates ==
    [][ /\ lastCall'.cmd # "daily" => last_consolidation' = last_consolidation
        /\ lastCall'.cmd = "daily" =>
              /\ last_consolidation' = Some(clock')
              /\ session_start' = session_start
              /\ messages_processed' = messages_processed
              /\ high_scores' = high_scores
      ]_vars

\* daily has run on a session with messages and high scores, at a later time
\* than the consolidation before it
C10_Witness ==
    /\ lastCall.cmd = "daily"
    /\ last_consolidation = Some(1)
    /\ session_start = Some(0)
    /\ messages_processed > 0
    /\ high_scores # <<>>

\* the last step was boot
Booted == lastCall.cmd = "boot"

\* the forgetting scan of the last boot exited with 0 and printed JSON
ScanRead == lastCall.forget.success /\ lastCall.forget.stdout.json

\* the entries of the last boot's action list that are about a step
StepEntries(step) ==
    { i \in 1..Len(result.actions) : result.actions[i].action = step }

\* boot saved a reset session and answered "ready"
SessionReset ==
    /\ "state" \in written
    /\ stateFile # <<>>
    /\ session_start = Some(clock)
    /\ messages_processed = 0
    /\ high_scores = <<>>
    /\ result.status = "ready"

\* C11 as stated: whatever the two collaborators did, boot saves the reset
\* session (session_start the boot time, messages_processed 0, high_scores
\* empty) and returns "ready", and every step that failed -- the sync, or
\* the scan by its exit or by malformed JSON -- has an entry in the result's
\* action list.
C11_EveryFailureRecorded ==
    Booted =>
        /\ SessionReset
        /\ ~lastCall.sync.success => StepEntries("sync_context") # {}
        /\ ~ScanRead => StepEntries("forgetting_scan") # {}

\* C11, amended: whatever the two collaborators did, boot saves the reset
\* session and returns "ready"; the action list starts with the sync_context
\* entry carrying the sync's success or failure; the scan runs also after a
\* failed sync, and adds its entry with the candidate count exactly when it
\* exited with 0 and printed JSON -- a failed or malformed scan adds nothing.
C11_BootSurvivesFailures ==
    Booted =>
        /\ SessionReset
        /\ Len(result.actions) >= 1
        /\ result.actions[1].action = "sync_context"
        /\ result.actions[1].success = lastCall.sync.success
        /\ IF ScanRead
           THEN /\ Len(result.actions) = 2
                /\ result.actions[2] =
                     [action |-> "forgetting_scan",
                      candidates |->
                          CountCandidates(lastCall.forget.stdout.scan)]
           ELSE Len(result.actions) = 1

\* boot after a session with messages, a kept score and a consolidation: the
\* sync failed, the scan still ran and reported a candidate, and the session
\* was reset
C11_Witness ==
    /\ Booted
    /\ ~lastCall.sync.success
    /\ ScanRead
    /\ result.actions[2].candidates = 1
    /\ SessionReset
    /\ last_consolidation # None

\* the last step was a process call whose scoring collaborator exited with 0
Scored == lastCall.cmd = "process" /\ lastCall.out.success

Unparsed == Scored /\ ~lastCall.out.stdout.json

incidents == load_tracker.incidents

last_summary == load_tracker.last_summary

IsPrefixOf(s, t) == Len(s) <= Len(t) /\ SubSeq(t, 1, Len(s)) = s

\* C2: in any sequential run of record, analyze, daily-summary and
\* update-learning the stored incidents are append-only: the list before a
\* command is a prefix of the list after it, record appends exactly one
\* incident, and daily-summary rewrites the document changing last_summary
\* only.
C2_IncidentsAppendOnly ==
    [][ /\ IsPrefixOf(incidents, incidents')
        /\ lastCall'.cmd = "record" =>
              /\ Len(incidents') = Len(incidents) + 1
              /\ incidents'[Len(incidents')].signal = lastCall'.signal
              /\ incidents'[Len(incidents')].context = lastCall'.context
              /\ incidents'[Len(incidents')].timestamp = clock
        /\ lastCall'.cmd # "record" => incidents' = incidents
        /\ lastCall'.cmd = "daily-summary" =>
              /\ load_tracker'.patterns = load_tracker.patterns
              /\ "tracker" \notin written' => trackerFile' = trackerFile
        /\ lastCall'.cmd \in {"analyze", "update-learning"} =>
              trackerFile' = trackerFile
      ]_vars

\* daily-summary has rewritten a document that holds incidents of an earlier
\* day and of today
C2_Witness ==
    /\ lastCall.cmd = "daily-summary"
    /\ "tracker" \in written
    /\ Len(incidents) >= 2
    /\ incidents[1].timestamp < TicksPerDay
    /\ last_summary = Some(1)

\* an incident stored at index i falls on the calendar day today
OnDay(i, today) ==
    /\ incidents[i].timestamp >= today * TicksPerDay
    /\ incidents[i].timestamp < (today + 1) * TicksPerDay

\* the calendar day of the clock
Today == CHOOSE d \in 0..clock : d * TicksPerDay <= clock /\ clock < (d + 1) * TicksPerDay

\* C5: generate_daily_summary with no stored incident on the current UTC day
\* returns the nothing-to-report text, writes no summary file, does not
\* rewrite the tracker and leaves last_summary; with an incident on today it
\* writes the file of the day and sets last_summary to today.
C5_DailySummaryFrame ==
    [][ lastCall'.cmd = "daily-summary" =>
          IF \E i \in 1..Len(incidents) : OnDay(i, Today)
          THEN /\ "summary" \in written'
               /\ Today \in DOMAIN summaryFiles'
               /\ summaryFiles'[Today].date = Today
               /\ last_summary' = Some(Today)
               /\ result' = [file |-> Today]
          ELSE /\ result' = [text |-> "No satisfaction incidents recorded today."]
               /\ written' = {}
               /\ summaryFiles' = summaryFiles
               /\ trackerFile' = trackerFile
               /\ last_summary' = last_summary
      ]_vars

\* daily-summary found nothing today although incidents are stored and a
\* summary was written on an earlier day
C5_Witness ==
    /\ lastCall.cmd = "daily-summary"
    /\ "text" \in DOMAIN result
    /\ incidents # <<>>
    /\ last_summary = Some(0)
    /\ Today = 1

\* the stored incidents analyze's window holds, by index
Selected ==
    { i \in 1..Len(incidents) :
        incidents[i].timestamp >= clock - lastCall.since_days * TicksPerDay }

\* the j-th index of S, counted from the lowest
Nth(S, j) == CHOOSE i \in S : Cardinality({ x \in S : x <= i }) = j

Abs(x) == IF x < 0 THEN -x ELSE x

\* r hundredths is n/total rounded to two decimals
IsRounded(r, n, total) == 2 * Abs(r * total - 100 * n) <= total

\* C7: analyze_patterns selects exactly the incidents with timestamp >=
\* now - since_days and, when there are any, returns their number, the count
\* of each signal present, the two ratios rounded to 2 decimals, the set of
\* distinct contexts and the last 5 selected incidents in store order.
C7_AnalyzeStatistics ==
    (lastCall.cmd = "analyze" /\ Selected # {}) =>
        LET n == Cardinality(Selected)
            k == IF n < 5 THEN n ELSE 5
            Count(signal) ==
                Cardinality({ i \in Selected : incidents[i].signal = signal })
        IN  /\ "total_incidents" \in DOMAIN result
            /\ result.total_incidents = n
            /\ DOMAIN result.signal_breakdown =
                  { incidents[i].signal : i \in Selected }
            /\ \A signal \in DOMAIN result.signal_breakdown :
                  result.signal_breakdown[signal] = Count(signal)
            /\ IsRounded(result.satisfaction_ratio, Count("positive"), n)
            /\ IsRounded(result.concern_ratio, Count("negative"), n)
            /\ result.common_contexts = { incidents[i].context : i \in Selected }
            /\ Len(result.recent_incidents) = k
            /\ \A j \in 1..k :
                  result.recent_incidents[j] = incidents[Nth(Selected, n - k + j)]

\* analyze has selected more than 5 incidents, one of them exactly at the
\* cutoff, and the satisfaction ratio had to be rounded
C7_Witness ==
    /\ lastCall.cmd = "analyze"
    /\ Cardinality(Selected) > 5
    /\ \E i \in Selected :
          incidents[i].timestamp = clock - lastCall.since_days * TicksPerDay
    /\ result.satisfaction_ratio * result.total_incidents
          # 100 * GetCount(result.signal_breakdown, "positive")

\* C8: analyze_patterns returns the no-incidents sentinel (a message field
\* only) exactly when no stored incident is inside the window, the empty
\* store included, and never a statistics object with total_incidents = 0.
C8_SentinelIffEmpty ==
    lastCall.cmd = "analyze" =>
        /\ (Selected = {}) <=>
              (result = [message |-> "No incidents in the specified period"])
        /\ "message" \in DOMAIN result <=> Selected = {}
        /\ "total_incidents" \in DOMAIN result => result.total_incidents > 0

\* analyze returned the sentinel on a store whose incidents are all older than
\* the window
C8_Witness ==
    /\ lastCall.cmd = "analyze"
    /\ incidents # <<>>
    /\ Selected = {}
    /\ "message" \in DOMAIN result

\* the negative incidents among the 50 most recent, by index
RecentNegatives ==
    { i \in 1..Len(incidents) :
        /\ i > Len(incidents) - 50
        /\ incidents[i].signal = "negative" }

\* how often context names a negative incident among them
NegativeCount(context) ==
    Cardinality({ i \in RecentNegatives : incidents[i].context = context })

\* where context first names one
FirstNegative(context) ==
    CHOOSE i \in RecentNegatives :
        /\ incidents[i].context = context
        /\ \A j \in RecentNegatives : incidents[j].context = context => i <= j

\* C9: update_learning_doc reports as Primary Concern Area the most frequent
\* context among the negative incidents of the 50 most recent incidents, ties
\* going to the one that appears first, whether or not positive incidents are
\* stored too.
C9_PrimaryConcernIsTopNegative ==
    (lastCall.cmd = "update-learning" /\ RecentNegatives # {}) =>
        \E i \in RecentNegatives :
            /\ learningFile[1].primary_concern = Some(incidents[i].context)
            /\ \A j \in RecentNegatives :
                  \/ NegativeCount(incidents[j].context) < NegativeCount(incidents[i].context)
                  \/ /\ NegativeCount(incidents[j].context) = NegativeCount(incidents[i].context)
                     /\ FirstNegative(incidents[i].context) <= FirstNegative(incidents[j].context)

\* pattern occurs in text as a substring
Occurs(pattern, text) ==
    \E i \in 1..(Len(text) - Len(pattern) + 1) :
        \A k \in 1..Len(pattern) : text[i + k - 1] = pattern[k]

\* some phrase of the list occurs in the lower-cased message
Mentions(patterns) ==
    \E n \in 1..Len(patterns) : Occurs(patterns[n], Lower(userText))

\* C6: detect_signal returns negative if any negative-list phrase occurs in
\* the lower-cased message, whatever else occurs and wherever; otherwise
\* positive if any positive-list phrase occurs; otherwise interested if any
\* interest-list phrase occurs; otherwise no signal.
C6_SignalPriority ==
    lastCall.cmd = "detect" =>
        result.signal =
            IF Mentions(negative_patterns) THEN Some("negative")
            ELSE IF Mentions(positive_patterns) THEN Some("positive")
            ELSE IF Mentions(interest_patterns) THEN Some("interested")
            ELSE None

\* detect_signal answered negative on a message that holds a positive phrase
\* first, written in capitals, and a negative phrase after it
C6_Witness ==
    /\ lastCall.cmd = "detect"
    /\ result.signal = Some("negative")
    /\ Mentions(positive_patterns)
    /\ userText # Lower(userText)
    /\ SubSeq(userText, 1, 5) = << "G", "R", "E", "A", "T" >>

\* C4: two concurrent invocations that read-modify-write the same document can
\* lose an update: whoever saves last writes its own copy with its own change,
\* so what another invocation saved since that copy was loaded is gone, though
\* both completed.  Stated of every save: the document after it is the
\* saver's loaded copy with the saver's change and nothing else.
C4_LastWriterWins ==
    [][ ("step" \in DOMAIN lastCall' /\ lastCall'.step = "save") =>
          LET p == lastCall'.proc
          IN  /\ procs'[p].pc = "idle"
              /\ incidents' =
                    IF procs[p].cmd = "record"
                    THEN Append(procs[p].tracker.incidents, procs[p].incident)
                    ELSE procs[p].tracker.incidents
              /\ last_summary' =
                    IF procs[p].cmd = "record"
                    THEN procs[p].tracker.last_summary
                    ELSE Some(procs[p].today)
      ]_vars

\* the incidents record calls returned the id of
Acknowledged ==
    UNION { { procs[p].returned[k].incident :
                k \in { j \in 1..Len(procs[p].returned) :
                          "incident" \in DOMAIN procs[p].returned[j] } } :
            p \in Procs }

\* every invocation has completed, daily-summary saved last over a document
\* that held more incidents than its copy, and an incident a record call
\* returned the id of is not stored
C4_Witness ==
    /\ \A p \in Procs : procs[p].pc = "idle"
    /\ lastCall.cmd = "daily-summary"
    /\ lastCall.step = "save"
    /\ lastCall.found > Len(incidents)
    /\ \E inc \in Acknowledged : \A i \in 1..Len(incidents) : incidents[i] # inc

====
